---- MODULE Spec2Model ----
(***************************************************************************)
(* Debug adapter of embedded-rust-debugger (src/debug_adapter/mod.rs).     *)
(*                                                                         *)
(* One session: the adapter thread (DebugAdapter::run) reads DAP messages  *)
(* from the client, talks to the debugger thread over two unbounded        *)
(* crossbeam channels and writes responses and events to the client.      *)
(* The adapter's position in run() is `pc`:                               *)
(*   "init"  - DebugAdapter::init, reading the first message              *)
(*   "check" - top of the loop of run(), receiver.try_recv()              *)
(*   "read"  - read_dap_msg in the loop of run()                          *)
(*   "wait"  - blocked in retrieve_response, receiver.recv()              *)
(*   "done"  - run() has returned, start_debugger_and_adapter is in join  *)
(*   "accept" - start_tcp_server is in listener.accept()                  *)
(*   "exit"  - start_tcp_server has returned                              *)
(***************************************************************************)
EXTENDS Integers, Sequences, FiniteSets, TLC

\* ------------------------------------------------------------------ bounds
MaxMsgs == 3      \* client messages decoded in one session
MaxEvents == 1    \* Halted events the debugger emits in one session
MaxList == 1      \* longest list a debugger response carries

\* --------------------------------------------------------------- variables
VARIABLES
    pc,        \* position of the adapter thread in run()
    ret,       \* return value of run(): "none" while running, "ok", "err"
    seq,       \* DebugAdapter.seq
    log,       \* messages send_data has written and flushed to the client
    sender,    \* channel adapter -> debugger (DebugRequest values)
    receiver,  \* channel debugger -> adapter (Command values)
    request,   \* the request whose handler is blocked in retrieve_response
    stage,     \* name of the DebugRequest that handler waits the result of
    debugger,  \* the debugger thread: "running" or "stopped"
    nread,     \* number of client messages read_dap_msg has decoded
    nevents,   \* number of events the debugger has emitted
    nsent,     \* number of DebugRequests sent on `sender`
    nresults,  \* number of Command::Response values the adapter has dequeued
    nfail,     \* number of client writes that have failed
    issued,    \* DebugRequests sent while handling the latest request
    got,       \* variants of the results retrieve_response dequeued for it
    taken,     \* events retrieve_response dequeued while handling it
    handled,   \* the latest request dispatched by handle_dap_request
    first,     \* the first message decoded on the connection
    readerr,   \* the error of the latest read_dap_msg, "none" once the
               \* loop has moved on
    closed     \* the client has closed its end of the connection

vars == <<pc, ret, seq, log, sender, receiver, request, stage, debugger,
          nread, nevents, nsent, nresults, nfail, issued, got, taken, handled,
          first, readerr, closed>>

\* ------------------------------------------------------------ client input
Opt == {"absent", "true", "false"}

NoRequest ==
    [type |-> "none", seq |-> 0, command |-> "none", arguments |-> "none",
     cwd |-> FALSE, flash |-> "absent", reset |-> "absent",
     halt_after_reset |-> "absent", path |-> FALSE]

\* a request with the given command and arguments ("none": no arguments
\* member, "bad": arguments of the wrong shape, "ok": arguments that decode)
Req(s, c, a) ==
    [NoRequest EXCEPT !.type = "request", !.seq = s, !.command = c,
                      !.arguments = a]

\* commands whose handlers take no arguments; "bogus" stands for every name
\* that is not in the table of handle_dap_request
PlainCommands ==
    {"launch", "threads", "configurationDone", "pause", "continue", "next",
     "stepIn", "evaluate", "bogus"}

ArgCommands == {"stackTrace", "scopes", "variables", "disconnect"}

\* the messages a client can put on the wire as its s-th message
ClientMessages(s) ==
    {[NoRequest EXCEPT !.type = t, !.seq = s] : t \in {"response", "event"}}
    \cup (IF s = 1 THEN {Req(s, "initialize", a) : a \in {"none", "ok"}}
          ELSE {})
    \cup {Req(s, c, "none") : c \in PlainCommands}
    \cup {Req(s, c, a) : c \in ArgCommands, a \in {"none", "bad", "ok"}}
    \cup {Req(s, "attach", a) : a \in {"none", "bad"}}
    \cup {[Req(s, "attach", "ok") EXCEPT !.cwd = w, !.flash = f]
            : w \in BOOLEAN, f \in Opt}
    \cup {[Req(s, "attach", "ok") EXCEPT !.reset = "true",
                                          !.halt_after_reset = "true"]}
    \cup {Req(s, "setBreakpoints", a) : a \in {"none", "bad"}}
    \cup {[Req(s, "setBreakpoints", "ok") EXCEPT !.path = p] : p \in BOOLEAN}

\* ---------------------------------------------------------- wire messages
NoBody == [kind |-> "none", n |-> 0]

Body(k, n) == [kind |-> k, n |-> n]

\* a Response whose request_seq is filled with the adapter's own seq
Response_own_seq(req, s, ok, body, msg) ==
    [type |-> "response", seq |-> s, request_seq |-> s,
     command |-> req.command, success |-> ok, message |-> msg, body |-> body,
     event |-> "none", reason |-> "none", description |-> "none",
     thread_id |-> 0, hit_breakpoint_ids |-> 0]

\* struct Response as the handlers fill it in
Response(req, s, ok, body, msg) ==
    [type |-> "response", seq |-> s, request_seq |-> req.seq,
     command |-> req.command, success |-> ok, message |-> msg, body |-> body,
     event |-> "none", reason |-> "none", description |-> "none",
     thread_id |-> 0, hit_breakpoint_ids |-> 0]

InitializedEvent(s) ==
    [type |-> "event", seq |-> s, request_seq |-> 0, command |-> "none",
     success |-> TRUE, message |-> "none", body |-> NoBody,
     event |-> "initialized", reason |-> "none", description |-> "none",
     thread_id |-> 0, hit_breakpoint_ids |-> 0]

\* the Event with a StoppedEventBody that handle_event_command builds
StoppedEvent(ev, s) ==
    [type |-> "event", seq |-> s, request_seq |-> 0, command |-> "none",
     success |-> TRUE, message |-> "none", body |-> Body("stopped", 0),
     event |-> "stopped",
     reason |-> IF ev.reason = "Breakpoint" THEN "breakpoint" ELSE ev.reason,
     description |-> IF ev.reason = "Breakpoint"
                     THEN "Target stopped due to breakpoint." ELSE "none",
     thread_id |-> 0, hit_breakpoint_ids |-> ev.hit]

\* send_data that also counts a write that failed
send_data_counting_failures(l, s, m, wrote) ==
    IF wrote THEN [ok |-> TRUE, log |-> Append(l, m), seq |-> s + 1]
    ELSE [ok |-> FALSE, log |-> l, seq |-> s + 1]

\* send_data: Ok(seq + 1) after write, write, flush; Err when one of them
\* fails (wrote = FALSE)
send_data(l, s, m, wrote) ==
    IF wrote THEN [ok |-> TRUE, log |-> Append(l, m), seq |-> s + 1]
    ELSE [ok |-> FALSE, log |-> l, seq |-> s]

\* the number of failed writes among the outcomes ws
Fails(ws) == Cardinality({i \in DOMAIN ws : ~ws[i]})

\* get_arguments that takes a missing arguments member for empty arguments
get_arguments_or_default(req) ==
    IF req.arguments = "bad" THEN "invalid arguments" ELSE "ok"

\* get_arguments that falls back to T::default() when decoding fails
get_arguments_unchecked(req) == "ok"

\* get_arguments::<T>(req): "ok" or the error text
get_arguments(req) ==
    IF req.arguments = "none" THEN "Expected arguments"
    ELSE IF req.arguments = "bad" THEN "invalid arguments"
    ELSE "ok"

\* verify_init_msg without the check of the command name
verify_init_msg_any_command(m) ==
    IF m.type = "request" THEN get_arguments(m)
    ELSE "Error: initial message should be of type request"

\* verify_init_msg that does not decode the arguments
verify_init_msg_no_arguments(m) ==
    IF m.type = "request"
    THEN IF m.command # "initialize"
         THEN "Error: Expected command initialize"
         ELSE "ok"
    ELSE "Error: initial message should be of type request"

\* verify_init_msg: "ok" or the error text
verify_init_msg(m) ==
    IF m.type = "request"
    THEN IF m.command # "initialize"
         THEN "Error: Expected command initialize"
         ELSE get_arguments(m)
    ELSE "Error: initial message should be of type request"

\* ------------------------------------------------------- channel messages
HaltReasons == {"Breakpoint", "Request"}

DebugRequest(name, reset, rah) ==
    [name |-> name, reset |-> reset, reset_and_halt |-> rah]

\* Command::Response(DebugResponse::<variant>) and Command::Event(Halted)
CmdResponse(variant, n) ==
    [kind |-> "Response", variant |-> variant, n |-> n, reason |-> "none",
     hit |-> 0]

CmdEvent(reason, hit) ==
    [kind |-> "Event", variant |-> "Halted", n |-> 0, reason |-> reason,
     hit |-> hit]

\* Option<bool> with `None => false`
OrFalse(o) == o = "true"

\* ------------------------------------------------- what a handler does next
\* self.sender.send(c)? followed by self.retrieve_response()?
Send(c) == [do |-> "send", cmd |-> c]

\* self.seq = send_data(.., &to_vec(&m)?, self.seq)?; Ok(exit)
ReplyWith(m, exit) == [do |-> "reply", msg |-> m, exit |-> exit]

\* return Err(anyhow!(e)) / a `?` that propagates e
Raise(e) == [do |-> "err", err |-> e]

\* Ok(false) with nothing written
Return == [do |-> "return"]

\* the `match args.flash` with Some(_) in place of Some(true)
FlashOrAttach_any_flag(req) ==
    IF req.flash # "absent"
    THEN Send(DebugRequest("Flash", FALSE, OrFalse(req.halt_after_reset)))
    ELSE Send(DebugRequest("Attach", OrFalse(req.reset),
                           OrFalse(req.halt_after_reset)))

\* the `match args.flash` of handle_attach_dap_request
FlashOrAttach(req) ==
    IF req.flash = "true"
    THEN Send(DebugRequest("Flash", FALSE, OrFalse(req.halt_after_reset)))
    ELSE Send(DebugRequest("Attach", OrFalse(req.reset),
                           OrFalse(req.halt_after_reset)))

\* handle_attach_dap_request after the result r of the command `st`
handle_attach_dap_request(req, st, r) ==
    CASE st = "SetBinary" -> Send(DebugRequest("SetChip", FALSE, FALSE))
      [] st = "SetChip" ->
            IF req.cwd THEN Send(DebugRequest("SetCWD", FALSE, FALSE))
            ELSE FlashOrAttach(req)
      [] st = "SetCWD" -> FlashOrAttach(req)
      [] OTHER -> ReplyWith(Response(req, req.seq, TRUE, NoBody, "none"), FALSE)

\* a `_` arm that falls into the handler of the arms above it
UnknownCommand_as_next(req) == Send(DebugRequest("Step", FALSE, FALSE))

\* the `_` arm of handle_dap_request: the command is logged, Ok(false)
UnknownCommand(req) == Return

\* handle_dap_request: the handler selected by request.command, up to its
\* first send, reply or error
Dispatch(req) ==
    LET args == get_arguments(req)
        ok(body) == ReplyWith(Response(req, seq, TRUE, body, "none"), FALSE)
        start(name) == Send(DebugRequest(name, FALSE, FALSE))
    IN  CASE req.command = "launch" -> Return
          [] req.command = "attach" ->
                IF args # "ok" THEN Raise(args) ELSE start("SetBinary")
          [] req.command = "setBreakpoints" ->
                IF args # "ok" THEN Raise(args)
                ELSE IF req.path THEN start("SetBreakpoints")
                ELSE ok(Body("breakpoints", 0))
          [] req.command = "threads" -> ok(Body("threads", 1))
          [] req.command = "configurationDone" -> ok(NoBody)
          [] req.command = "pause" -> start("Halt")
          [] req.command = "stackTrace" ->
                IF args # "ok" THEN Raise(args) ELSE start("DAPStackFrames")
          [] req.command = "disconnect" ->
                IF args # "ok" THEN Raise(args) ELSE start("Exit")
          [] req.command = "continue" -> start("Continue")
          [] req.command = "scopes" ->
                IF args # "ok" THEN Raise(args) ELSE start("DAPScopes")
          [] req.command = "source" -> Return
          [] req.command = "variables" ->
                IF args # "ok" THEN Raise(args) ELSE start("DAPVariables")
          [] req.command \in {"next", "stepIn", "stepOut"} -> start("Step")
          [] req.command = "evaluate" -> ok(Body("evaluate", 0))
          [] OTHER -> UnknownCommand(req)

\* the rest of the handler of req once retrieve_response has returned Ok(r)
\* for the command `st`
Resume(req, st, r) ==
    LET ok(body, exit) ==
            ReplyWith(Response(req, seq, TRUE, body, "none"), exit)
    IN  CASE req.command = "attach" -> handle_attach_dap_request(req, st, r)
          [] req.command = "setBreakpoints" ->
                ok(Body("breakpoints",
                        IF r.variant = "SetBreakpoints" THEN r.n ELSE 0),
                   FALSE)
          [] req.command = "stackTrace" ->
                IF r.variant = "DAPStackFrames"
                THEN ok(Body("stackTrace", r.n), FALSE)
                ELSE Raise("Unreachable")
          [] req.command = "scopes" ->
                ok(Body("scopes", IF r.variant = "DAPScopes" THEN r.n ELSE 0),
                   FALSE)
          [] req.command = "variables" ->
                IF r.variant = "DAPVariables"
                THEN ok(Body("variables", r.n), FALSE)
                ELSE Raise("Unreachable")
          [] req.command = "continue" -> ok(Body("continued", 0), FALSE)
          [] req.command = "disconnect" -> ok(NoBody, TRUE)
          [] OTHER -> ok(NoBody, FALSE)   \* pause, next, stepIn, stepOut

\* retrieve_response that returns an Error result like any other result
AfterResult_ignoring_errors(req, st, c) == Resume(req, st, c)

\* retrieve_response on Command::Response(c), then the handler of req: an
\* Error result is the handler's Err with the engine's message, any other
\* result is returned to the handler
AfterResult(req, st, c) ==
    IF c.variant = "Error" THEN Raise("engine error") ELSE Resume(req, st, c)

\* ------------------------------------------------------------ adapter steps
\* run() returns Err
Fatal(l, s, f) ==
    [pc |-> "done", ret |-> "err", seq |-> s, log |-> l, fails |-> f]

\* the handler returns Ok(false) (or Ok(true): exit) to run()
Handled(l, s, exit, f) ==
    [pc |-> IF exit THEN "done" ELSE "check",
     ret |-> IF exit THEN "ok" ELSE "none", seq |-> s, log |-> l, fails |-> f]

\* the Err branch of `match result` in handle_dap_request
HandlerErr(req, l, s, msg, wrote) ==
    LET w == send_data(l, s, Response(req, s, FALSE, NoBody, msg), wrote)
    IN  IF w.ok THEN Handled(w.log, w.seq, FALSE, 0) ELSE Fatal(l, s, 1)

\* a handler writes its reply m; a failed write is the handler's Err
HandlerReply(req, m, exit, w1, w2) ==
    LET w == send_data(log, seq, m, w1)
    IN  IF w.ok THEN Handled(w.log, w.seq, exit, 0)
        ELSE [HandlerErr(req, log, seq, "io error", w2)
                EXCEPT !.fails = @ + 1]

\* carry out the handler step a of request req; iss are the commands the
\* handler has sent so far, w1 and w2 the outcomes of the client writes, f0
\* the writes that have already failed in this step
Perform(req, a, w1, w2, iss, f0) ==
    IF a.do = "send" /\ debugger = "running"
    THEN /\ sender' = Append(sender, a.cmd)
         /\ pc' = "wait"
         /\ request' = req
         /\ stage' = a.cmd.name
         /\ nsent' = nsent + 1
         /\ issued' = Append(iss, a.cmd.name)
         /\ UNCHANGED <<ret, seq, log, nfail>>
    ELSE LET out ==
                CASE a.do = "send" ->
                        HandlerErr(req, log, seq,
                                   "sending on a disconnected channel", w2)
                  [] a.do = "reply" -> HandlerReply(req, a.msg, a.exit, w1, w2)
                  [] a.do = "err" -> HandlerErr(req, log, seq, a.err, w2)
                  [] OTHER -> Handled(log, seq, FALSE, 0)
         IN  /\ nfail' = nfail + f0 + out.fails
             /\ pc' = out.pc
             /\ ret' = out.ret
             /\ seq' = out.seq
             /\ log' = out.log
             /\ request' = NoRequest
             /\ stage' = "none"
             /\ issued' = iss
             /\ UNCHANGED <<sender, nsent>>

\* DebugAdapter::new and the two unbounded() channels of
\* start_debugger_and_adapter
Init ==
    /\ pc = "init"
    /\ ret = "none"
    /\ seq = 0
    /\ log = <<>>
    /\ sender = <<>>
    /\ receiver = <<>>
    /\ request = NoRequest
    /\ stage = "none"
    /\ debugger = "running"
    /\ nread = 0
    /\ nevents = 0
    /\ nsent = 0
    /\ nresults = 0
    /\ nfail = 0
    /\ issued = <<>>
    /\ got = <<>>
    /\ taken = <<>>
    /\ handled = NoRequest
    /\ first = NoRequest
    /\ readerr = "none"
    /\ closed = FALSE

\* DebugAdapter::init that sends the initialized event before the response
init_event_first ==
    /\ pc = "init"
    /\ nread < MaxMsgs
    /\ ~closed
    /\ \E m \in ClientMessages(nread + 1), w1 \in BOOLEAN, w2 \in BOOLEAN :
         LET a == send_data(log, seq, InitializedEvent(seq), w1)
             resp == Response(m, a.seq, TRUE, Body("capabilities", 1), "none")
             b == send_data(a.log, a.seq, resp, w2)
             out == IF verify_init_msg(m) # "ok" THEN Fatal(log, seq, 0)
                    ELSE IF ~a.ok THEN Fatal(a.log, a.seq, 1)
                    ELSE IF ~b.ok THEN Fatal(b.log, b.seq, 1)
                    ELSE Handled(b.log, b.seq, FALSE, 0)
         IN  /\ nfail' = nfail + out.fails
             /\ pc' = out.pc
             /\ ret' = out.ret
             /\ seq' = out.seq
             /\ log' = out.log
             /\ first' = m
    /\ nread' = nread + 1
    /\ readerr' = "none"
    /\ UNCHANGED closed
    /\ UNCHANGED <<sender, receiver, request, stage, debugger, nevents, nsent,
                   nresults, issued, got, taken, handled>>

\* DebugAdapter::init: the first decoded message (the read is retried until
\* read_dap_msg returns Ok), verify_init_msg, the capabilities response and
\* the initialized event; every `?` that fires makes run() return Err
init ==
    /\ pc = "init"
    /\ nread < MaxMsgs
    /\ ~closed
    /\ \E m \in ClientMessages(nread + 1), w1 \in BOOLEAN, w2 \in BOOLEAN :
         LET resp == Response(m, seq, TRUE, Body("capabilities", 1), "none")
             a == send_data(log, seq, resp, w1)
             b == send_data(a.log, a.seq, InitializedEvent(a.seq), w2)
             out == IF verify_init_msg(m) # "ok" THEN Fatal(log, seq, 0)
                    ELSE IF ~a.ok THEN Fatal(a.log, a.seq, 1)
                    ELSE IF ~b.ok THEN Fatal(b.log, b.seq, 1)
                    ELSE Handled(b.log, b.seq, FALSE, 0)
         IN  /\ nfail' = nfail + out.fails
             /\ pc' = out.pc
             /\ ret' = out.ret
             /\ seq' = out.seq
             /\ log' = out.log
             /\ first' = m
    /\ nread' = nread + 1
    /\ readerr' = "none"
    /\ UNCHANGED closed
    /\ UNCHANGED <<sender, receiver, request, stage, debugger, nevents, nsent,
                   nresults, issued, got, taken, handled>>

\* run(): `match self.receiver.try_recv()` at the top of the loop; an event
\* is forwarded, any other value is dropped ("Unreachable"), Err is ignored
CheckEvents ==
    /\ pc = "check"
    /\ IF receiver = <<>>
       THEN /\ pc' = "read"
            /\ UNCHANGED <<ret, seq, log, receiver, nresults, nfail>>
       ELSE LET c == Head(receiver)
            IN  /\ receiver' = Tail(receiver)
                /\ IF c.kind = "Event"
                   THEN \E w \in BOOLEAN :
                          LET a == send_data(log, seq, StoppedEvent(c, seq), w)
                          IN  /\ nfail' = nfail + Fails(<<w>>)
                              /\ pc' = IF a.ok THEN "read" ELSE "done"
                              /\ ret' = IF a.ok THEN "none" ELSE "err"
                              /\ seq' = a.seq
                              /\ log' = a.log
                              /\ UNCHANGED nresults
                   ELSE /\ pc' = "read"
                        /\ nresults' = nresults + 1
                        /\ UNCHANGED <<ret, seq, log, nfail>>
    /\ readerr' = "none"
    /\ UNCHANGED closed
    /\ UNCHANGED <<sender, request, stage, debugger, nread, nevents, nsent,
                   issued, got, taken, handled, first>>

\* the errors read_dap_msg returns: a read that fails (WouldBlock on the
\* non-blocking socket when no complete message has arrived), a header
\* without a content length, a body that does not decode, a type that is
\* not request, response or event
ReadErrors == {"WouldBlock", "ContentLength", "Decode", "UnknownType"}

\* a main loop that, like the loop of init(), reads again after a failed
\* read without going back to try_recv
NoMessage_reading_again ==
    /\ pc \in {"init", "read"}
    /\ pc' = pc
    /\ \E e \in IF closed THEN {"ContentLength"}
                ELSE {"WouldBlock", "ContentLength", "Decode", "UnknownType"} :
          readerr' = e
    /\ UNCHANGED <<ret, seq, log, sender, receiver, request, stage, debugger,
                   nread, nevents, nsent, nresults, nfail, issued, got, taken,
                   handled, first, closed>>

\* the errors read_dap_msg can return in the current state of the
\* connection: at end of input both read_line calls return Ok(0), the header
\* is empty and get_content_len finds no length
ReadErrorsNow == IF closed THEN {"ContentLength"} ELSE ReadErrors

\* init() and run(): read_dap_msg returns Err, `continue`: init() reads
\* again, run() goes back to the top of its loop
NoMessage ==
    /\ pc \in {"init", "read"}
    /\ pc' = IF pc = "init" THEN "init" ELSE "check"
    /\ \E e \in ReadErrorsNow : readerr' = e
    /\ UNCHANGED <<ret, seq, log, sender, receiver, request, stage, debugger,
                   nread, nevents, nsent, nresults, nfail, issued, got, taken,
                   handled, first, closed>>

\* the client closes its end of the connection while the session is live
ClientCloses ==
    /\ pc \in {"init", "check", "read", "wait"}
    /\ ~closed
    /\ closed' = TRUE
    /\ UNCHANGED <<pc, ret, seq, log, sender, receiver, request, stage,
                   debugger, nread, nevents, nsent, nresults, nfail, issued,
                   got, taken, handled, first, readerr>>

\* a handle_dap_message that hands every message to handle_dap_request
handle_dap_message_any(m) == "request"

\* handle_dap_message: a request goes to handle_dap_request, a response or
\* an event is Err("Unimplemented")
handle_dap_message(m) ==
    IF m.type = "request" THEN "request" ELSE "Unimplemented"

\* run(): read_dap_msg returns a message, handle_dap_message, and for a
\* request handle_dap_request up to the handler's first blocking wait
ReadMessage ==
    /\ pc = "read"
    /\ nread < MaxMsgs
    /\ ~closed
    /\ \E m \in ClientMessages(nread + 1), w1 \in BOOLEAN, w2 \in BOOLEAN :
         IF handle_dap_message(m) # "request"
         THEN /\ pc' = "done"
              /\ ret' = "err"
              /\ UNCHANGED <<seq, log, sender, request, stage, nsent, nfail,
                             issued, got, taken, handled>>
         ELSE /\ Perform(m, Dispatch(m), w1, w2, <<>>, 0)
              /\ handled' = m
              /\ got' = <<>>
              /\ taken' = <<>>
    /\ nread' = nread + 1
    /\ readerr' = "none"
    /\ UNCHANGED closed
    /\ UNCHANGED <<receiver, debugger, nevents, nresults, first>>

\* retrieve_response: one turn of its loop, and on a response the rest of
\* the handler up to its next blocking wait. The debugger thread puts only
\* Command::Response and Command::Event on the channel, so the `_` arm is
\* not taken.
RetrieveResponse ==
    /\ pc = "wait"
    /\ IF receiver = <<>>
       THEN \* recv() blocks until the channel is disconnected
            /\ debugger = "stopped"
            /\ \E w2 \in BOOLEAN :
                 Perform(request,
                         Raise("receiving on an empty and disconnected channel"),
                         TRUE, w2, issued, 0)
            /\ UNCHANGED <<receiver, nresults, got, taken>>
       ELSE LET c == Head(receiver)
            IN  /\ receiver' = Tail(receiver)
                /\ IF c.kind = "Event"
                   THEN \E w1 \in BOOLEAN, w2 \in BOOLEAN :
                          LET a == send_data(log, seq, StoppedEvent(c, seq), w1)
                          IN  /\ taken' = Append(taken, c)
                              /\ IF a.ok
                                 THEN /\ seq' = a.seq
                                      /\ log' = a.log
                                      /\ UNCHANGED <<pc, ret, sender, request,
                                                     stage, nsent, nfail,
                                                     issued>>
                                 ELSE Perform(request, Raise("io error"),
                                              TRUE, w2, issued, 1)
                              /\ UNCHANGED <<nresults, got>>
                   ELSE \E w1 \in BOOLEAN, w2 \in BOOLEAN :
                          /\ nresults' = nresults + 1
                          /\ got' = Append(got, c.variant)
                          /\ UNCHANGED taken
                          /\ Perform(request, AfterResult(request, stage, c),
                                     w1, w2, issued, 0)
    /\ UNCHANGED <<debugger, nread, nevents, handled, first, readerr, closed>>

\* --------------------------------------------------------- debugger thread
ListVariants == {"SetBreakpoints", "DAPStackFrames", "DAPScopes", "DAPVariables"}

\* the results DebugHandler may produce for a DebugRequest
Results(cmd) ==
    {CmdResponse("Error", 0)}
    \cup {CmdResponse(cmd.name, n)
            : n \in IF cmd.name \in ListVariants THEN 0..MaxList ELSE {0}}

\* DebugHandler::run takes the next DebugRequest and sends its result; it
\* returns after Exit
DebuggerStep ==
    /\ debugger = "running"
    /\ sender # <<>>
    /\ \E r \in Results(Head(sender)) : receiver' = Append(receiver, r)
    /\ sender' = Tail(sender)
    /\ debugger' = IF Head(sender).name = "Exit" THEN "stopped" ELSE "running"
    /\ UNCHANGED <<pc, ret, seq, log, request, stage, nread, nevents, nsent,
                   nresults, nfail, issued, got, taken, handled, first,
                   readerr, closed>>

\* DebugHandler::run notices that the target has halted
DebuggerEvent ==
    /\ debugger = "running"
    /\ nevents < MaxEvents
    /\ \E reason \in HaltReasons :
         receiver' = Append(receiver, CmdEvent(reason, nevents + 1))
    /\ nevents' = nevents + 1
    /\ UNCHANGED <<pc, ret, seq, log, sender, request, stage, debugger, nread,
                   nsent, nresults, nfail, issued, got, taken, handled, first,
                   readerr, closed>>

\* ----------------------------------------------------------------- listener
\* a debugger thread that is detached instead of joined
Joined_detached == TRUE

\* debugger_th.join() returns: the debugger thread has ended
Joined == debugger = "stopped"

\* start_debugger_and_adapter after da.run(): debugger_th.join() returns once
\* the debugger thread has ended; the function then returns and drops the
\* adapter, both channels and the connection
Join ==
    /\ pc = "done"
    /\ Joined
    /\ pc' = "accept"
    /\ ret' = "none"
    /\ seq' = 0
    /\ log' = <<>>
    /\ sender' = <<>>
    /\ receiver' = <<>>
    /\ request' = NoRequest
    /\ stage' = "none"
    /\ nread' = 0
    /\ nevents' = 0
    /\ nsent' = 0
    /\ nresults' = 0
    /\ nfail' = 0
    /\ issued' = <<>>
    /\ got' = <<>>
    /\ taken' = <<>>
    /\ handled' = NoRequest
    /\ first' = NoRequest
    /\ readerr' = "none"
    /\ closed' = FALSE
    /\ UNCHANGED debugger

\* start_tcp_server: listener.accept() returns a connection; the channels,
\* the debugger thread and the adapter of the new session are created
Accept ==
    /\ pc = "accept"
    /\ pc' = "init"
    /\ debugger' = "running"
    /\ UNCHANGED <<ret, seq, log, sender, receiver, request, stage, nread,
                   nevents, nsent, nresults, nfail, issued, got, taken,
                   handled, first, readerr, closed>>

\* start_tcp_server: accept, set_nonblocking or try_clone fails and the `?`
\* returns the error
AcceptFails ==
    /\ pc = "accept"
    /\ pc' = "exit"
    /\ UNCHANGED <<ret, seq, log, sender, receiver, request, stage, debugger,
                   nread, nevents, nsent, nresults, nfail, issued, got, taken,
                   handled, first, readerr, closed>>

Next ==
    \/ init
    \/ CheckEvents
    \/ NoMessage
    \/ ClientCloses
    \/ ReadMessage
    \/ RetrieveResponse
    \/ DebuggerStep
    \/ DebuggerEvent
    \/ Join
    \/ Accept
    \/ AcceptFails

Spec == Init /\ [][Next]_vars

\* the threads are scheduled: the debugger thread takes the commands sent to
\* it, the adapter thread runs its loop and its blocking waits return once
\* something is on the queue, join returns once the debugger thread has
\* ended. What the client sends and when the target halts is not assumed.
LiveSpec ==
    /\ Spec
    /\ WF_vars(DebuggerStep)
    /\ WF_vars(CheckEvents)
    /\ WF_vars(RetrieveResponse)
    /\ WF_vars(Join)

\* moreover the reads on the client socket do not block (set_nonblocking in
\* start_tcp_server): a read_dap_msg that finds no message returns Err
LiveSpecNonBlocking == LiveSpec /\ WF_vars(NoMessage)

\* the session states of the design: AwaitingInit, Running, Terminated;
\* between two connections there is no session
SessionState ==
    IF pc = "init" THEN "AwaitingInit"
    ELSE IF pc = "done" THEN "Terminated"
    ELSE IF pc \in {"accept", "exit"} THEN "NoSession"
    ELSE "Running"

TypeOK ==
    /\ pc \in {"init", "check", "read", "wait", "done", "accept", "exit"}
    /\ ret \in {"none", "ok", "err"}
    /\ seq \in Nat
    /\ nread \in 0..MaxMsgs
    /\ nevents \in 0..MaxEvents
    /\ debugger \in {"running", "stopped"}
    /\ readerr \in {"none"} \cup ReadErrors
    /\ closed \in BOOLEAN

\* ------------------------------------------------------------------ claims
IsInitialize(m) == m.type = "request" /\ m.command = "initialize"

\* the capabilities response to the initialize request m, stamped 0
CapabilitiesResponse(m) ==
    [type |-> "response", seq |-> 0, request_seq |-> m.seq,
     command |-> "initialize", success |-> TRUE, message |-> "none",
     body |-> [kind |-> "capabilities", n |-> 1], event |-> "none",
     reason |-> "none", description |-> "none", thread_id |-> 0,
     hit_breakpoint_ids |-> 0]

\* C1: the seq stamped into the messages written to the client is 0 for the
\* first message and strictly increasing from each message to the next, the
\* success response to an attach request included.
C1_SeqStampsIncrease ==
    /\ Len(log) >= 1 => log[1].seq = 0
    /\ \A i \in 1..(Len(log) - 1) : log[i].seq < log[i + 1].seq

\* C2: the sequence counter starts at 0 and always equals the number of
\* messages written and flushed to the client: a successful write adds one,
\* a failed write leaves it unchanged.
C2_CounterCountsWrites == seq = Len(log)

\* some writes have failed and some have succeeded after the handshake
C2_Witness == nfail >= 1 /\ Len(log) >= 3 /\ seq = Len(log)

\* C3: when the first message decoded on a connection is not a request named
\* initialize, the session is Terminated with nothing written to the client
\* and no engine command issued.
C3_BadFirstMessageTerminates ==
    (first.type # "none" /\ ~IsInitialize(first)) =>
        /\ SessionState = "Terminated"
        /\ ret = "err"
        /\ log = <<>>
        /\ seq = 0
        /\ nsent = 0
        /\ sender = <<>>

\* the first message was a request of another command, the session is over
C3_Witness ==
    /\ first.type = "request"
    /\ first.command = "attach"
    /\ SessionState = "Terminated"

C5_HandshakeOrder ==
    /\ Len(log) >= 1 => log[1] = CapabilitiesResponse(first)
    /\ Len(log) >= 2 => log[2] = InitializedEvent(1)
    /\ \A i \in 1..Len(log) : log[i].event = "initialized" => i = 2
    /\ (pc \in {"check", "read", "wait"} \/ nread > 1) => Len(log) >= 2

\* a response was written after the handshake
C5_Witness ==
    /\ Len(log) >= 3
    /\ log[2].event = "initialized"
    /\ log[3].type = "response"

\* m is a response that answers the latest dispatched request
Answers(m) ==
    /\ handled.type = "request"
    /\ m.type = "response"
    /\ m.request_seq = handled.seq

Answered == \E i \in 1..Len(log) : Answers(log[i])

\* C6: an event the adapter dequeues while blocked on the result of a
\* command is written to the client as a stopped notification before the
\* response of the request that issued the command, and the adapter goes on
\* waiting for the result.
C6_EventBeforeResponse ==
    /\ \A i \in 1..Len(log) :
          Answers(log[i]) =>
              \A k \in 1..Len(taken) :
                  \E j \in 1..(i - 1) :
                      /\ log[j].event = "stopped"
                      /\ log[j].hit_breakpoint_ids = taken[k].hit
    /\ (taken # <<>> /\ ~Answered /\ pc # "done") =>
          (pc = "wait" /\ request = handled)

\* C7: at most one engine command is outstanding, i.e. sent on the command
\* queue with no result received by the adapter for it yet.
C7_AtMostOneOutstanding == nsent - nresults <= 1

\* the last command an attach request issues
AttachLast(req) == IF req.flash = "true" THEN "Flash" ELSE "Attach"

IsPathlessSetBreakpoints(req) ==
    /\ req.type = "request"
    /\ req.command = "setBreakpoints"
    /\ req.arguments = "ok"
    /\ ~req.path

\* C9: a setBreakpoints request whose source has no path is answered with a
\* success response that carries an empty breakpoint list, and no engine
\* command is sent while handling it.
C9_PathlessSetBreakpoints ==
    IsPathlessSetBreakpoints(handled) =>
        /\ issued = <<>>
        /\ \A i \in 1..Len(log) :
              Answers(log[i]) =>
                  /\ log[i].success
                  /\ log[i].body = [kind |-> "breakpoints", n |-> 0]

IsDisconnect(req) == req.type = "request" /\ req.command = "disconnect"

SendFails ==
    /\ debugger = "stopped"
    /\ \/ /\ pc = "read"
          /\ nread' = nread + 1
          /\ handled'.type = "request"
          /\ handled'.seq = nread'
          /\ Dispatch(handled').do = "send"
       \/ /\ pc = "wait"
          /\ receiver # <<>>
          /\ receiver' = Tail(receiver)
          /\ Head(receiver).kind = "Response"
          /\ AfterResult(request, stage, Head(receiver)).do = "send"

RecvFails ==
    /\ debugger = "stopped"
    /\ pc = "wait"
    /\ receiver = <<>>
    /\ pc' # pc

\* C11: a send on the command queue or a receive on the result queue that
\* fails because the debugger thread has stopped ends the session: run()
\* returns Err and no further client request is read.
C11_ChannelErrorIsFatal ==
    [][(SendFails \/ RecvFails) => (pc' = "done" /\ ret' = "err")]_vars

\* m is a failure response to req: success=false, the message msg, no body
FailureResponse(m, req, msg) ==
    /\ m.type = "response"
    /\ m.request_seq = req.seq
    /\ m.command = req.command
    /\ ~m.success
    /\ m.message = msg
    /\ m.body = [kind |-> "none", n |-> 0]

\* this step writes exactly one message, a failure response to req with the
\* message msg, and the session stays Running
AnsweredWithFailure(req, msg) ==
    /\ Len(log') = Len(log) + 1
    /\ SubSeq(log', 1, Len(log)) = log
    /\ FailureResponse(log'[Len(log')], req, msg)
    /\ pc' = "check"
    /\ ret' = "none"

\* the one write of this step fails and run() returns Err
WriteFailed ==
    /\ log' = log
    /\ nfail' = nfail + 1
    /\ pc' = "done"
    /\ ret' = "err"

\* no response to req has been written
Unanswered(req) ==
    \A i \in 1..Len(log) :
        log[i].type = "response" => log[i].request_seq # req.seq

\* the adapter, blocked in retrieve_response, dequeues an error result
ErrorResult ==
    /\ pc = "wait"
    /\ receiver # <<>>
    /\ Head(receiver).kind = "Response"
    /\ Head(receiver).variant = "Error"
    /\ receiver' = Tail(receiver)

ExpectedVariant ==
    [stackTrace |-> "DAPStackFrames", scopes |-> "DAPScopes",
     variables |-> "DAPVariables", setBreakpoints |-> "SetBreakpoints"]

\* the adapter, blocked in retrieve_response for one of these handlers,
\* dequeues a result that is no error and not of the handler's variant
WrongVariant ==
    /\ pc = "wait"
    /\ request.command \in DOMAIN ExpectedVariant
    /\ receiver # <<>>
    /\ Head(receiver).kind = "Response"
    /\ Head(receiver).variant \notin {"Error", ExpectedVariant[request.command]}
    /\ receiver' = Tail(receiver)

\* C13: a result of the wrong variant for stackTrace, scopes, variables or
\* setBreakpoints ends the session: run() returns Err and nothing, in
\* particular no success response with an empty payload, is written.
C13_WrongVariantIsFatal ==
    [][WrongVariant => (pc' = "done" /\ ret' = "err" /\ log' = log)]_vars

\* read_dap_msg in the loop of run() returns an error in this step
ReadFails == pc = "read" /\ readerr' # "none"

\* C14: in Running, a read that fails because no complete message is
\* available yet sends the main loop back to its event check with nothing
\* else changed; every other read failure (no content length in the header,
\* undecodable body, unknown message type) ends the session.
C14_OnlyWouldBlockRetries ==
    [][ReadFails =>
          IF readerr' = "WouldBlock"
          THEN /\ pc' = "check"
               /\ UNCHANGED <<ret, seq, log, sender, receiver, nread>>
          ELSE pc' = "done" /\ ret' = "err"]_vars

\* the command names of the table of handle_dap_request
HandlerTable ==
    {"launch", "attach", "setBreakpoints", "threads", "configurationDone",
     "pause", "stackTrace", "disconnect", "continue", "scopes", "source",
     "variables", "next", "stepIn", "stepOut", "evaluate"}

\* the main loop reads a request in this step
ReadsRequest ==
    /\ pc = "read"
    /\ nread' = nread + 1
    /\ handled'.type = "request"
    /\ handled'.seq = nread'

\* C15: a request read in Running whose command is not in the handler table
\* does not end the session and sends no engine command: the main loop goes
\* on to its next iteration.
C15_UnknownCommandIsIgnored ==
    [][(ReadsRequest /\ handled'.command \notin HandlerTable) =>
          /\ pc' = "check"
          /\ ret' = "none"
          /\ sender' = sender
          /\ nsent' = nsent
          /\ issued' = <<>>]_vars

\* a request of an unknown command has just been handled
C15_Witness ==
    /\ handled.type = "request"
    /\ handled.command \notin HandlerTable
    /\ nread = handled.seq
    /\ pc = "check"
    /\ readerr = "none"
    /\ nsent = 0
    /\ Len(log) = 2

\* C16: whenever a session has ended (run() has returned, with Ok after a
\* disconnect or with Err), its debugger thread eventually stops, the join
\* completes and the listener is back in accept.
C16_EndedSessionIsJoined == (pc = "done") ~> (pc = "accept")

\* C17: at most one session and one debugger thread are live at a time: the
\* listener is in accept only when no session and no debugger thread
\* exists, it gets there only after run() has returned and the debugger
\* thread has been joined, and a debugger thread is started only by the
\* accept of a new connection.
C17_OneSessionAtATime ==
    /\ [](pc \in {"accept", "exit"} =>
            /\ debugger = "stopped"
            /\ sender = <<>>
            /\ receiver = <<>>
            /\ request = NoRequest)
    /\ [][pc' = "accept" => (pc = "done" /\ debugger = "stopped")]_vars
    /\ [][(debugger = "stopped" /\ debugger' = "running") =>
            (pc = "accept" /\ pc' = "init")]_vars

\* the session has ended, its debugger thread is joined and the listener is
\* in accept again
C17_Witness == pc = "accept" /\ debugger = "stopped" /\ nread = 0

\* the events written to the client as stopped notifications, and the events
\* still on the result queue, each in order, by the number the debugger
\* thread gave the event when it emitted it
Forwarded ==
    LET s == SelectSeq(log, LAMBDA m : m.event = "stopped")
    IN  [i \in 1..Len(s) |-> s[i].hit_breakpoint_ids]

Pending ==
    LET s == SelectSeq(receiver, LAMBDA c : c.kind = "Event")
    IN  [i \in 1..Len(s) |-> s[i].hit]

\* C18: while the session is Running, the events the debugger thread has
\* emitted are, in emission order, the stopped notifications written so far
\* followed by the events still on the result queue: every event the adapter
\* has dequeued, in its main loop or in a blocking wait, was forwarded once
\* and in order, so also before the response built from any result queued
\* behind it.
C18_EventsForwardedInOrder ==
    SessionState = "Running" =>
        Forwarded \o Pending = [i \in 1..nevents |-> i]

\* the request a response written in this step answers: the first message
\* in init(), the request handle_dap_request is handling otherwise
AnsweredRequest == IF pc = "init" THEN first' ELSE handled'

\* C19: every response written to the client, success or failure, by init()
\* or by any handler, carries the seq of the request it answers as
\* request_seq and that request's command name as command, whatever seq the
\* response itself is stamped with.
C19_ResponseEchoesRequest ==
    [][\A i \in (Len(log) + 1)..Len(log') :
          log'[i].type = "response" =>
              /\ AnsweredRequest.type = "request"
              /\ log'[i].request_seq = AnsweredRequest.seq
              /\ log'[i].command = AnsweredRequest.command]_vars

\* after the handshake a stopped notification, a success response and a
\* failure response have been written, both responses with a seq that differs
\* from their request_seq
C19_Witness ==
    /\ Len(log) = 5
    /\ log[3].event = "stopped"
    /\ log[4].type = "response"
    /\ log[4].success
    /\ log[4].seq = 3
    /\ log[4].request_seq = 2
    /\ log[5].type = "response"
    /\ ~log[5].success
    /\ log[5].seq = 4
    /\ log[5].request_seq = 3

\* the commands whose handlers decode their arguments
ArgumentCommands ==
    {"attach", "setBreakpoints", "stackTrace", "scopes", "variables",
     "disconnect"}

\* C20: in Running, a request of attach, setBreakpoints, stackTrace, scopes,
\* variables or disconnect whose arguments are missing or do not decode sends
\* no engine command and gets exactly one response, with success=false, the
\* decoding error as message and no body, and the session stays Running; the
\* session ends only when the write of that response fails.
C20_ArgumentErrorIsRecovered ==
    [][(/\ ReadsRequest
        /\ handled'.command \in ArgumentCommands
        /\ handled'.arguments # "ok") =>
          /\ sender' = sender
          /\ nsent' = nsent
          /\ issued' = <<>>
          /\ Unanswered(handled')
          /\ \/ \E msg \in {"Expected arguments", "invalid arguments"} :
                   AnsweredWithFailure(handled', msg)
             \/ WriteFailed]_vars

\* a disconnect without arguments was answered with the failure response
\* and the session is still Running with no command sent
C20_Witness ==
    /\ handled.type = "request"
    /\ handled.command = "disconnect"
    /\ handled.arguments = "none"
    /\ pc = "check"
    /\ nsent = 0
    /\ nfail = 0
    /\ Len(log) = 3
    /\ FailureResponse(log[3], handled, "Expected arguments")

\* the adapter is in the main loop of run(), handling no request
Idle == pc \in {"check", "read"}

\* C21: an event that is on the result queue while the adapter is in its
\* main loop, handling no request, is eventually written to the client as a
\* stopped notification with no client message needed, when reads do not
\* block and the threads are scheduled. The only other ways out are those
\* the claim leaves aside: the client sends a request whose handler blocks
\* on the engine, or the session ends, because the write of the
\* notification fails or the client sends a message that ends it.
C21_IdleEventIsForwarded ==
    \A h \in 1..MaxEvents :
        (Idle /\ \E i \in 1..Len(Pending) : Pending[i] = h)
            ~> \/ \E i \in 1..Len(Forwarded) : Forwarded[i] = h
               \/ pc = "wait"
               \/ pc = "done"

\* the event was forwarded by the main loop: no request has been read since
\* the handshake and no write has failed
C21_Witness ==
    /\ nread = 1
    /\ nfail = 0
    /\ nevents = 1
    /\ Idle
    /\ Forwarded = <<1>>
    /\ Len(log) = 3

\* C22: a launch request read in Running sends no engine command and is
\* answered with a response with success=false, and the session stays
\* Running (it ends only when the write of that response fails).
C22_LaunchFails ==
    [][(ReadsRequest /\ handled'.command = "launch") =>
          /\ sender' = sender
          /\ nsent' = nsent
          /\ \/ /\ Len(log') = Len(log) + 1
                /\ log'[Len(log')].type = "response"
                /\ log'[Len(log')].request_seq = handled'.seq
                /\ ~log'[Len(log')].success
                /\ pc' = "check"
             \/ WriteFailed]_vars

\* the adapter dequeues the head of the result queue in this step
Dequeues == receiver # <<>> /\ receiver' = Tail(receiver)

\* C23: whatever the try_recv of the main loop dequeues is an event, never a
\* result; and a result that a blocked handler dequeues is an error or the
\* result of the command that handler is waiting for.
C23_MainLoopDequeuesOnlyEvents ==
    /\ [][(pc = "check" /\ Dequeues) => Head(receiver).kind = "Event"]_vars
    /\ [][(pc = "wait" /\ Dequeues /\ Head(receiver).kind = "Response") =>
            Head(receiver).variant \in {"Error", stage}]_vars

\* C24: once the client has closed its end of the connection, in
\* AwaitingInit or in Running, the session eventually is Terminated: run()
\* returns.
C24_ClosedConnectionTerminates == closed ~> (pc = "done")

\* the main loop reads a message that is not a request in this step
ReadsOtherMessage ==
    /\ pc = "read"
    /\ nread' = nread + 1
    /\ ~(handled'.type = "request" /\ handled'.seq = nread')

\* C25: a response or event message read in Running ends the session, run()
\* returning Err, with nothing written to the client, no engine command
\* sent, no Exit in particular, and the sequence counter unchanged.
C25_OtherMessageTerminates ==
    [][ReadsOtherMessage =>
          /\ pc' = "done"
          /\ ret' = "err"
          /\ log' = log
          /\ seq' = seq
          /\ sender' = sender
          /\ nsent' = nsent]_vars

\* the second message of the session was no request: the session ended with
\* Err right after the handshake, with no request handled and no write failed
C25_Witness ==
    /\ pc = "done"
    /\ ret = "err"
    /\ nread = 2
    /\ handled = NoRequest
    /\ nfail = 0
    /\ Len(log) = 2
    /\ seq = 2
    /\ nsent = 0

====
